---- MODULE Spec2Model ----
(***************************************************************************)
(* A model of mincecalc.py, the Minecraft item calculator: the amount      *)
(* parser and formatter, the recursive (simple) recipe resolver and the    *)
(* layered recipe resolver.  Every component is a small state machine      *)
(* whose inputs are drawn by its Init and whose actions are the steps of   *)
(* the Python function.  Quantities are Python floats in the source; here  *)
(* they are exact numbers (integers, or rationals <<n, d>> with d > 0),    *)
(* which is what the doubles hold for the whole-number quantities the      *)
(* program is used with.                                                   *)
(***************************************************************************)
EXTENDS Integers, Sequences, FiniteSets, TLC

VARIABLES
    pc,                 \* position of the running function
    \* compute_layered_requirements
    layers,             \* the stage list (argument)
    final_quantity,     \* the desired quantity (argument)
    required_amount,    \* dict: stage name -> quantity demanded so far
    computed_layers,    \* list of per-layer results, None until computed
    i,                  \* loop index of the backward loop (1-based)
    total_required_for_this_layer, \* the local read at line 376, per layer
    layered_result,     \* the returned list
    \* compute_requirements
    recipes,            \* the recipe store (argument)
    item,               \* the item of the outermost call (argument)
    quantity,           \* the quantity of the outermost call (argument)
    stack,              \* the frames of the calls that are expanding a recipe
    call,               \* the arguments of the call being entered
    ret,                \* the dict the last finished call returned
    simple_result,      \* the dict the outermost call returned
    \* parse_single_amount, parse_combined_amount
    text,               \* the amount string (argument s)
    config,             \* the configuration dict (argument)
    parse_fn,           \* which of the two parsers was called
    parsed,             \* what the call returned, or the ValueError it raised
    \* format_breakdown
    total_items,        \* the quantity to format (argument)
    auto_conv,          \* whether to break down into containers (argument)
    container_preference, \* "sb" or "dc" (argument)
    formatted,          \* the returned string and the return statement taken
    breakdowns,         \* convert_stacks_to_containers: the tuples computed
    \* advanced_crafting, layered branch
    base_materials,     \* dict: material not produced by a layer -> total
    \* crafting_helper
    input_required,     \* input items per craft (first amount entered)
    output_result,      \* output items per craft (second amount entered)
    choice,             \* the calculation type entered
    ratio_amount,       \* the desired output or the available input entered
    ratio_result,       \* required_inputs or produced_outputs, None before
    \* load_config, config_menu
    config_suffixes,    \* the dict config["suffixes"] of the session
    default_suffixes,   \* the dict DEFAULT_CONFIG["suffixes"]
    suffixes_shared,    \* config["suffixes"] is DEFAULT_CONFIG["suffixes"]
    config_choice,      \* the option of the menu handled last
    \* add_recipe (the store is the dict recipes of the session)
    recipes_before,     \* the store when the last run of add_recipe began
    output_item,        \* the name entered at the first prompt of the run
    overwrite,          \* the answer to "Overwrite?", "" when not asked
    add_outcome,        \* how the run ended
    saved_as,           \* the key the run wrote, "" when it wrote none
    add_runs            \* the runs of add_recipe so far

lvars == <<layers, final_quantity, required_amount, computed_layers, i,
           total_required_for_this_layer, layered_result>>

svars == <<recipes, item, quantity, stack, call, ret, simple_result>>

pvars == <<text, config, parse_fn, parsed>>

fvars == <<total_items, auto_conv, container_preference, formatted,
           breakdowns>>

avars == <<base_materials>>

rvars == <<input_required, output_result, choice, ratio_amount, ratio_result>>

cvars == <<config_suffixes, default_suffixes, suffixes_shared, config_choice>>

dvars == <<recipes_before, output_item, overwrite, add_outcome, saved_as,
           add_runs>>

vars == <<pc, lvars, svars, pvars, fvars, avars, rvars, cvars, dvars>>

\* Python's None in a list of result records.
None == [none |-> TRUE]

\* A result record without an "error" key.
NoError == "no error"

\* The empty dict.
EmptyDict == [x \in {} |-> 0]

\* The variables of the components other than the layered resolver, and
\* other than the simple resolver.
nonlayered == <<svars, pvars, fvars, avars, rvars, cvars, dvars>>
nonsimple == <<lvars, pvars, fvars, avars, rvars, cvars, dvars>>
nonparse == <<lvars, svars, fvars, avars, rvars, cvars, dvars>>
nonformat == <<lvars, svars, pvars, avars, rvars, cvars, dvars>>
nonratio == <<lvars, svars, pvars, fvars, avars, cvars, dvars>>
nonconfig == <<lvars, svars, pvars, fvars, avars, rvars, dvars>>
nonadd == <<lvars, item, quantity, stack, call, ret, simple_result, pvars,
            fvars, avars, rvars, cvars>>

\* The variables of a component that is not running.
LayeredIdle ==
    /\ layers = <<>>
    /\ final_quantity = 0
    /\ required_amount = EmptyDict
    /\ computed_layers = <<>>
    /\ i = 0
    /\ total_required_for_this_layer = <<>>
    /\ layered_result = <<>>

SimpleIdle ==
    /\ recipes = EmptyDict
    /\ item = ""
    /\ quantity = <<0, 1>>
    /\ stack = <<>>
    /\ call = <<>>
    /\ ret = EmptyDict
    /\ simple_result = EmptyDict

ParseIdle ==
    /\ text = <<>>
    /\ config = EmptyDict
    /\ parse_fn = ""
    /\ parsed = <<>>

FormatIdle ==
    /\ total_items = <<0, 1>>
    /\ auto_conv = FALSE
    /\ container_preference = ""
    /\ formatted = <<>>
    /\ breakdowns = <<>>

AdvancedIdle == base_materials = EmptyDict

ConfigIdle ==
    /\ config_suffixes = EmptyDict
    /\ default_suffixes = EmptyDict
    /\ suffixes_shared = FALSE
    /\ config_choice = ""

AddIdle ==
    /\ recipes_before = EmptyDict
    /\ output_item = ""
    /\ overwrite = ""
    /\ add_outcome = ""
    /\ saved_as = ""
    /\ add_runs = 0

RatioIdle ==
    /\ input_required = 0
    /\ output_result = 0
    /\ choice = ""
    /\ ratio_amount = 0
    /\ ratio_result = None

(***************************************************************************)
(* Arithmetic of the source on whole numbers.                              *)
(***************************************************************************)

\* math.ceil(a / b) for b > 0.
CeilDiv(a, b) == -((-a) \div b)

RECURSIVE SumOver(_, _)
\* The sum of f[x] over the finite set S.
SumOver(f, S) ==
    IF S = {} THEN 0
    ELSE LET x == CHOOSE y \in S : TRUE IN f[x] + SumOver(f, S \ {x})


(***************************************************************************)
(* Exact fractions <<n, d>>, d > 0, in lowest terms: the quantities of the *)
(* simple resolver, which divides and never rounds.                        *)
(***************************************************************************)

RECURSIVE GCD(_, _)
GCD(a, b) == IF b = 0 THEN a ELSE GCD(b, a % b)

Abs(n) == IF n < 0 THEN -n ELSE n

\* The fraction n / d, d > 0, in lowest terms.
Q(n, d) == LET g == GCD(Abs(n), d) IN <<n \div g, d \div g>>

\* a + b.
QAdd(a, b) == Q(a[1] * b[2] + b[1] * a[2], a[2] * b[2])

\* a / k for a whole number k > 0.
QDivInt(a, k) == Q(a[1], a[2] * k)

\* k * a for a whole number k.
QMulInt(k, a) == Q(k * a[1], a[2])

(***************************************************************************)
(* compute_layered_requirements(layers, final_quantity)                    *)
(***************************************************************************)

\* Bound: the longest stage list the model resolves.
MaxLayers == 3

LayerNames == {"planks", "sticks"}

LayerInputs ==
    { ("logs" :> 1),
      ("planks" :> 2),
      ("planks" :> 1) @@ ("sticks" :> 6) }

LayerOutputs == {0, 3}

LayerChoices ==
    [name : LayerNames, inputs : LayerInputs, output : LayerOutputs]

\* logs -> planks -> sticks -> ladders.
LadderLayers ==
    << [name |-> "planks",  inputs |-> ("logs" :> 1),   output |-> 4],
       [name |-> "sticks",  inputs |-> ("planks" :> 2), output |-> 4],
       [name |-> "ladders", inputs |-> ("sticks" :> 6), output |-> 3] >>

\* A stage list whose middle stage has a negative output.
NegativeOutputLayers ==
    << [name |-> "planks", inputs |-> ("logs" :> 1),   output |-> 3],
       [name |-> "sticks", inputs |-> ("planks" :> 2), output |-> -1],
       [name |-> "planks", inputs |-> ("planks" :> 1) @@ ("sticks" :> 6),
        output |-> 3] >>

LayerLists ==
    (UNION { [1..n -> LayerChoices] : n \in 1..MaxLayers })
        \cup {LadderLayers, NegativeOutputLayers}

FinalQuantities == {10}

\* Line 364: one entry per stage name, all 0.0.
InitialRequired(ls) ==
    [nm \in { ls[k].name : k \in 1..Len(ls) } |-> 0]

\* Mutant of CraftsNeeded: rounds the number of crafts down.
CraftsNeeded_Floor(total_required, layer_output_qty) ==
    total_required \div layer_output_qty

\* Line 387: crafts_needed = math.ceil(total_required / layer_output_qty).
CraftsNeeded(total_required, layer_output_qty) ==
    CeilDiv(total_required, layer_output_qty)

\* Lines 392-394: the inputs needed for crafts_needed crafts of the layer.
LayerInputRequirements(layer, crafts_needed) ==
    [ing \in DOMAIN layer.inputs |-> crafts_needed * layer.inputs[ing]]

\* Mutant of ProducedEarlier: scans every layer, not only the earlier ones.
ProducedEarlier_AnyLayer(ls, k, ingredient) ==
    \E j \in 1..Len(ls) : ls[j].name = ingredient

\* Lines 408-409: is the ingredient the name of a layer before layer k.
ProducedEarlier(ls, k, ingredient) ==
    \E j \in 1..(k - 1) : ls[j].name = ingredient

\* Mutant of Propagate: without the break, adds the requirement once for
\* every earlier layer of the ingredient's name.
Propagate_EveryMatch(req, ls, k, layer_input_requirements) ==
    [nm \in DOMAIN req |->
        IF nm \in DOMAIN layer_input_requirements
        THEN req[nm] + layer_input_requirements[nm]
                 * Cardinality({ j \in 1..(k - 1) : ls[j].name = nm })
        ELSE req[nm]]

\* Lines 406-411: add each requirement whose ingredient is produced by an
\* earlier layer to required_amount[ingredient].
Propagate(req, ls, k, layer_input_requirements) ==
    [nm \in DOMAIN req |->
        IF nm \in DOMAIN layer_input_requirements
           /\ ProducedEarlier(ls, k, nm)
        THEN req[nm] + layer_input_requirements[nm]
        ELSE req[nm]]

\* Lines 380-383: the result recorded for a layer with non-positive output.
BrokenLayer(k, layer_name) ==
    [layer |-> k, name |-> layer_name, crafts |-> 0, produced |-> 0,
     requirements |-> EmptyDict, error |-> "Zero/Negative Output"]

\* Lines 397-403: the result recorded for a computed layer.
ComputedLayer(k, layer, crafts_needed) ==
    [layer |-> k, name |-> layer.name, crafts |-> crafts_needed,
     produced |-> crafts_needed * layer.output,
     requirements |-> LayerInputRequirements(layer, crafts_needed),
     error |-> NoError]

\* Line 378: the guard of the broken-layer branch.
NonPositiveOutput(layer_output_qty) == layer_output_qty <= 0

LayeredInit ==
    /\ pc = "layered_start"
    /\ layers \in LayerLists
    /\ final_quantity \in FinalQuantities
    /\ required_amount = EmptyDict
    /\ computed_layers = <<>>
    /\ i = 0
    /\ total_required_for_this_layer = <<>>
    /\ layered_result = <<>>
    /\ SimpleIdle
    /\ ParseIdle
    /\ FormatIdle
    /\ AdvancedIdle
    /\ RatioIdle
    /\ ConfigIdle
    /\ AddIdle

\* Lines 362-369: the tables before the loop.
LayeredStart ==
    /\ pc = "layered_start"
    /\ LET n == Len(layers) IN
        /\ required_amount' =
              [InitialRequired(layers) EXCEPT ![layers[n].name] = final_quantity]
        /\ computed_layers' = [k \in 1..n |-> None]
        /\ total_required_for_this_layer' = [k \in 1..n |-> 0]
        /\ i' = n
    /\ pc' = "layered_loop"
    /\ UNCHANGED <<layers, final_quantity, layered_result, nonlayered>>

\* Mutant of LayeredSkipBroken: leaves the loop at the broken layer.
LayeredSkipBroken_Abort ==
    /\ pc = "layered_loop"
    /\ i >= 1
    /\ NonPositiveOutput(layers[i].output)
    /\ total_required_for_this_layer' =
          [total_required_for_this_layer EXCEPT ![i] = required_amount[layers[i].name]]
    /\ computed_layers' =
          [computed_layers EXCEPT ![i] = BrokenLayer(i, layers[i].name)]
    /\ i' = 0
    /\ UNCHANGED <<pc, layers, final_quantity, required_amount, layered_result, nonlayered>>

\* Lines 378-384: one iteration of the loop, on a layer with output <= 0.
LayeredSkipBroken ==
    /\ pc = "layered_loop"
    /\ i >= 1
    /\ NonPositiveOutput(layers[i].output)
    /\ total_required_for_this_layer' =
          [total_required_for_this_layer EXCEPT ![i] = required_amount[layers[i].name]]
    /\ computed_layers' =
          [computed_layers EXCEPT ![i] = BrokenLayer(i, layers[i].name)]
    /\ i' = i - 1
    /\ UNCHANGED <<pc, layers, final_quantity, required_amount, layered_result, nonlayered>>

\* Mutant of LayeredProcess: builds the requirements in the layer's own
\* inputs dict instead of a new one.
LayeredProcess_InPlace ==
    /\ pc = "layered_loop"
    /\ i >= 1
    /\ ~NonPositiveOutput(layers[i].output)
    /\ LET layer == layers[i]
           total == required_amount[layer.name]
           crafts_needed == CraftsNeeded(total, layer.output)
       IN
        /\ total_required_for_this_layer' =
              [total_required_for_this_layer EXCEPT ![i] = total]
        /\ computed_layers' =
              [computed_layers EXCEPT ![i] = ComputedLayer(i, layer, crafts_needed)]
        /\ required_amount' =
              Propagate(required_amount, layers, i,
                        LayerInputRequirements(layer, crafts_needed))
        /\ layers' =
              [layers EXCEPT ![i].inputs =
                  LayerInputRequirements(layer, crafts_needed)]
    /\ i' = i - 1
    /\ UNCHANGED <<pc, final_quantity, layered_result, nonlayered>>

\* Lines 373-411: one iteration of the loop, on a layer with output > 0.
LayeredProcess ==
    /\ pc = "layered_loop"
    /\ i >= 1
    /\ ~NonPositiveOutput(layers[i].output)
    /\ LET layer == layers[i]
           total == required_amount[layer.name]
           crafts_needed == CraftsNeeded(total, layer.output)
       IN
        /\ total_required_for_this_layer' =
              [total_required_for_this_layer EXCEPT ![i] = total]
        /\ computed_layers' =
              [computed_layers EXCEPT ![i] = ComputedLayer(i, layer, crafts_needed)]
        /\ required_amount' =
              Propagate(required_amount, layers, i,
                        LayerInputRequirements(layer, crafts_needed))
    /\ i' = i - 1
    /\ UNCHANGED <<pc, layers, final_quantity, layered_result, nonlayered>>

\* Mutant of LayeredReturn: returns the results in processing order.
LayeredReturn_ProcessingOrder ==
    /\ pc = "layered_loop"
    /\ i = 0
    /\ layered_result' =
          LET kept == SelectSeq(computed_layers, LAMBDA comp : comp # None)
          IN [k \in 1..Len(kept) |-> kept[Len(kept) + 1 - k]]
    /\ pc' = "layered_done"
    /\ UNCHANGED <<layers, final_quantity, required_amount, computed_layers,
                   i, total_required_for_this_layer, nonlayered>>

\* Line 414: the loop is over, the computed layers are returned.
LayeredReturn ==
    /\ pc = "layered_loop"
    /\ i = 0
    /\ layered_result' =
          SelectSeq(computed_layers, LAMBDA comp : comp # None)
    /\ pc' = "layered_done"
    /\ UNCHANGED <<layers, final_quantity, required_amount, computed_layers,
                   i, total_required_for_this_layer, nonlayered>>

LayeredNext ==
    \/ LayeredStart
    \/ LayeredSkipBroken
    \/ LayeredProcess
    \/ LayeredReturn

SpecLayered == LayeredInit /\ [][LayeredNext]_vars

(***************************************************************************)
(* Properties of compute_layered_requirements.                             *)
(***************************************************************************)

\* The layers whose loop iteration is over.
ProcessedLayers ==
    IF pc \in {"layered_loop", "layered_done"} THEN (i + 1)..Len(layers) ELSE {}

\* The quantity of nm that the result of layer m requires (0 if none).
RequirementOf(m, nm) ==
    IF nm \in DOMAIN computed_layers[m].requirements
    THEN computed_layers[m].requirements[nm]
    ELSE 0

\* C1: for every processed stage with output > 0, crafts_needed is the least
\* whole number of crafts whose production meets the demand read for the
\* stage: produced = crafts * output >= demand, produced - demand < output,
\* and one craft less would not meet the demand.
C1_CraftsAreCeiling ==
    \A k \in ProcessedLayers :
        layers[k].output > 0 =>
            LET c == computed_layers[k]
                demand == total_required_for_this_layer[k]
                out == layers[k].output
            IN /\ c.crafts \in Nat
               /\ c.produced = c.crafts * out
               /\ c.produced >= demand
               /\ c.produced - demand < out
               /\ (c.crafts - 1) * out < demand \/ c.crafts = 0

\* C1 witness: a stage was processed whose demand is not a multiple of its
\* output, so that the crafts produce a surplus.
C1_Witness ==
    \E k \in ProcessedLayers :
        /\ layers[k].output > 0
        /\ total_required_for_this_layer[k] > 0
        /\ computed_layers[k].produced > total_required_for_this_layer[k]

\* The requirements of every processed stage with output > 0 are
\* crafts_needed * per_craft_qty, ingredient by ingredient.
RequirementsAreCraftsTimesQty ==
    \A k \in ProcessedLayers :
        layers[k].output > 0 =>
            /\ DOMAIN computed_layers[k].requirements = DOMAIN layers[k].inputs
            /\ \A ing \in DOMAIN layers[k].inputs :
                  computed_layers[k].requirements[ing]
                      = computed_layers[k].crafts * layers[k].inputs[ing]

\* For the ladder recipe and 10 ladders: crafts 4, 6, 3 for ladders, sticks,
\* planks, and the base requirement logs: 3.
LadderExample ==
    (pc = "layered_done" /\ layers = LadderLayers /\ final_quantity = 10) =>
        /\ Len(layered_result) = 3
        /\ layered_result[3].crafts = 4
        /\ layered_result[2].crafts = 6
        /\ layered_result[1].crafts = 3
        /\ layered_result[3].requirements = ("sticks" :> 24)
        /\ layered_result[2].requirements = ("planks" :> 12)
        /\ layered_result[1].requirements = ("logs" :> 3)

\* C2 as stated: the demand of a stage when it is processed is final_quantity
\* if it is the last stage, else 0, plus the requirements for its name of all
\* later stages; and the table entry of a name has received a requirement only
\* from consuming stages that have an earlier stage of that name, and not when
\* the ingredient is named like the consuming stage or like a later stage.
C2_AsStated ==
    /\ RequirementsAreCraftsTimesQty
    /\ LadderExample
    /\ \A k \in ProcessedLayers :
          total_required_for_this_layer[k]
              = (IF k = Len(layers) THEN final_quantity ELSE 0)
                + SumOver([m \in (k + 1)..Len(layers) |->
                              RequirementOf(m, layers[k].name)],
                          (k + 1)..Len(layers))
    /\ pc \in {"layered_loop", "layered_done"} =>
          \A nm \in DOMAIN required_amount :
              required_amount[nm]
                  = (IF nm = layers[Len(layers)].name THEN final_quantity ELSE 0)
                    + SumOver([m \in ProcessedLayers |->
                                  IF /\ \E j \in 1..(m - 1) : layers[j].name = nm
                                     /\ layers[m].name # nm
                                     /\ ~ \E j \in (m + 1)..Len(layers) :
                                            layers[j].name = nm
                                  THEN RequirementOf(m, nm)
                                  ELSE 0],
                              ProcessedLayers)

\* C2, amended: the table is keyed by stage name.  The demand of a stage when
\* it is processed is final_quantity if its name is the last stage's name,
\* else 0, plus the requirements for its name of all later stages; the table
\* entry of a name has received the requirement of a consuming stage exactly
\* when a stage of strictly lower index than the consuming stage has that
\* name.
C2_BackwardPropagation ==
    /\ RequirementsAreCraftsTimesQty
    /\ LadderExample
    /\ \A k \in ProcessedLayers :
          total_required_for_this_layer[k]
              = (IF layers[k].name = layers[Len(layers)].name
                 THEN final_quantity ELSE 0)
                + SumOver([m \in (k + 1)..Len(layers) |->
                              RequirementOf(m, layers[k].name)],
                          (k + 1)..Len(layers))
    /\ pc \in {"layered_loop", "layered_done"} =>
          \A nm \in DOMAIN required_amount :
              required_amount[nm]
                  = (IF nm = layers[Len(layers)].name THEN final_quantity ELSE 0)
                    + SumOver([m \in ProcessedLayers |->
                                  IF \E j \in 1..(m - 1) : layers[j].name = nm
                                  THEN RequirementOf(m, nm)
                                  ELSE 0],
                              ProcessedLayers)

\* C2 witness: the resolution is over, an earlier stage carries the name of
\* the last stage and was demanded both the final quantity and the
\* requirement a later stage propagated to it, and some stage has a base
\* material that was propagated to no stage.
C2_Witness ==
    /\ pc = "layered_done"
    /\ \E k \in 1..(Len(layers) - 1) :
          /\ layers[k].name = layers[Len(layers)].name
          /\ layers[k].output > 0
          /\ total_required_for_this_layer[k] > final_quantity
    /\ \E k \in 1..Len(layers) :
          /\ "logs" \in DOMAIN computed_layers[k].requirements
          /\ computed_layers[k].requirements["logs"] > 0

\* C9: a processed stage with output <= 0 has the result crafts 0, produced
\* 0, no requirements and an error marker; it propagates nothing (every table
\* entry is the initial demand plus what the stages with positive output
\* propagated); and the resolution goes on: when it is over every stage has
\* its result, a stage with positive output its ceiling of the demand that
\* reached it.
C9_BrokenStageSkipped ==
    /\ \A k \in ProcessedLayers : computed_layers[k] # None
    /\ \A k \in ProcessedLayers :
          layers[k].output <= 0 =>
              /\ computed_layers[k].layer = k
              /\ computed_layers[k].name = layers[k].name
              /\ computed_layers[k].crafts = 0
              /\ computed_layers[k].produced = 0
              /\ computed_layers[k].requirements = EmptyDict
              /\ computed_layers[k].error # NoError
    /\ pc \in {"layered_loop", "layered_done"} =>
          \A nm \in DOMAIN required_amount :
              required_amount[nm]
                  = (IF nm = layers[Len(layers)].name THEN final_quantity ELSE 0)
                    + SumOver([m \in ProcessedLayers |->
                                  IF /\ layers[m].output > 0
                                     /\ nm \in DOMAIN layers[m].inputs
                                     /\ \E j \in 1..(m - 1) : layers[j].name = nm
                                  THEN computed_layers[m].crafts * layers[m].inputs[nm]
                                  ELSE 0],
                              ProcessedLayers)
    /\ pc = "layered_done" =>
          /\ Len(layered_result) = Len(layers)
          /\ \A k \in 1..Len(layers) :
                /\ layered_result[k] = computed_layers[k]
                /\ layers[k].output > 0 =>
                      LET d == total_required_for_this_layer[k]
                          c == layered_result[k].crafts
                      IN /\ layered_result[k].error = NoError
                         /\ c * layers[k].output >= d
                         /\ (c - 1) * layers[k].output < d \/ c = 0

\* C9 witness: the resolution is over, a stage with output <= 0 lies between
\* a later stage with positive output and an earlier stage with positive
\* output that still crafted for the demand that reached it.
C9_Witness ==
    /\ pc = "layered_done"
    /\ \E k \in 2..(Len(layers) - 1) :
          /\ layers[k].output <= 0
          /\ computed_layers[k].error # NoError
          /\ \E m \in (k + 1)..Len(layers) : layered_result[m].crafts > 0
          /\ \E m \in 1..(k - 1) : layered_result[m].crafts > 0

SameNameBelow(k) == { j \in 1..(k - 1) : layers[j].name = layers[k].name }

is_intermediate_AnyLayer(ls, comp, ing) ==
    \E j \in 1..Len(ls) : ls[j].name = ing

\* Line 494: any(layer["name"] == ing for layer in layers[:comp['layer']-1]).
is_intermediate(ls, comp, ing) ==
    \E j \in 1..(comp.layer - 1) : ls[j].name = ing

\* Line 497: base_materials[ing] = base_materials.get(ing, 0) + amt.
AddBaseMaterial(bm, ing, amt) ==
    IF ing \in DOMAIN bm
    THEN [bm EXCEPT ![ing] = @ + amt]
    ELSE bm @@ (ing :> amt)

RECURSIVE SummariseRequirements(_, _, _, _)
\* Lines 492-497: the loop over the requirements ings of one result.
SummariseRequirements(bm, ls, comp, ings) ==
    IF ings = {} THEN bm
    ELSE LET ing == CHOOSE x \in ings : TRUE
             next == IF ~is_intermediate(ls, comp, ing)
                     THEN AddBaseMaterial(bm, ing, comp.requirements[ing])
                     ELSE bm
         IN SummariseRequirements(next, ls, comp, ings \ {ing})

RECURSIVE SummariseLayers(_, _, _, _)
\* Lines 485-497: the loop over the results from the k-th on; a result with
\* an error is skipped.
SummariseLayers(bm, ls, comps, k) ==
    IF k > Len(comps) THEN bm
    ELSE LET comp == comps[k]
             next == IF comp.error # NoError THEN bm
                     ELSE SummariseRequirements(bm, ls, comp,
                                                DOMAIN comp.requirements)
         IN SummariseLayers(next, ls, comps, k + 1)

\* Lines 484-502: the summary, after compute_layered_requirements returned.
AdvancedSummary ==
    /\ pc = "layered_done"
    /\ base_materials' = SummariseLayers(EmptyDict, layers, layered_result, 1)
    /\ pc' = "summary_done"
    /\ UNCHANGED <<lvars, svars, pvars, fvars, rvars, cvars, dvars>>

AdvancedNext ==
    \/ LayeredNext
    \/ AdvancedSummary

SpecAdvanced == LayeredInit /\ [][AdvancedNext]_vars

(***************************************************************************)
(* Properties of the base-material summary.                                *)
(***************************************************************************)

\* The total of the summary for a name (0 when it has no entry).
BaseTotal(nm) == IF nm \in DOMAIN base_materials THEN base_materials[nm] ELSE 0

\* What the resolver's table received for a name after the initial demand.
Propagated(nm) ==
    IF nm \in DOMAIN required_amount
    THEN required_amount[nm]
           - (IF nm = layers[Len(layers)].name THEN final_quantity ELSE 0)
    ELSE 0

\* The names that are an ingredient of some stage.
IngredientNames == UNION { DOMAIN layers[m].inputs : m \in 1..Len(layers) }

\* The sum over the stages in S of their requirement for nm.
RequiredBy(S, nm) == SumOver([m \in S |-> RequirementOf(m, nm)], S)

\* The stages that have no strictly earlier stage named nm.
StagesWithoutEarlier(nm) ==
    { m \in 1..Len(layers) : ~ \E j \in 1..(m - 1) : layers[j].name = nm }

MaxDepth == 5

\* Bound: the most ingredients of a generated simple recipe.
MaxIngredients == 2

Items == {"chest", "plank", "log"}

\* The quantity per craft of an ingredient, wherever it is an ingredient.
IngredientQty == ("chest" :> 2) @@ ("plank" :> 8) @@ ("log" :> 1)

SimpleOutputs == {0, 1, 4}

\* No recipe of that name in the store.
Absent == [absent |-> TRUE]

\* A recipe with a "layers" key.
LayeredRecipe == [layers |-> <<>>]

SimpleRecipes ==
    { [inputs |-> [ing \in S |-> IngredientQty[ing]], output |-> o] :
        S \in { T \in SUBSET Items : Cardinality(T) <= MaxIngredients },
        o \in SimpleOutputs }

\* The store that holds the recipes f[x] other than Absent.
StoreOf(f) == [x \in { y \in DOMAIN f : f[y] # Absent } |-> f[x]]

\* plank = {log: 1} -> 4, chest = {plank: 8} -> 1.
ChestStore ==
    ("plank" :> [inputs |-> ("log" :> 1), output |-> 4])
    @@ ("chest" :> [inputs |-> ("plank" :> 8), output |-> 1])

\* A store whose plank recipe has a negative output.
NegativeOutputStore ==
    ("plank" :> [inputs |-> ("log" :> 1), output |-> -4])
    @@ ("chest" :> [inputs |-> ("plank" :> 8) @@ ("log" :> 1), output |-> 1])

Stores ==
    { StoreOf(f) : f \in [Items -> SimpleRecipes \cup {Absent, LayeredRecipe}] }
        \cup {ChestStore, NegativeOutputStore}

Quantities == { <<2, 1>> }

\* Mutant of IsBaseCase: an item that is already being expanded is a leaf.
IsBaseCase_OnPath(it) ==
    IF it \notin DOMAIN recipes THEN TRUE
    ELSE IF "layers" \in DOMAIN recipes[it] THEN TRUE
    ELSE \E k \in 1..Len(stack) : stack[k].item = it

\* Line 333: the item is a raw material or a layered recipe.
IsBaseCase(it) ==
    IF it \notin DOMAIN recipes THEN TRUE ELSE "layers" \in DOMAIN recipes[it]

\* Line 338: the recipe cannot be used.
InvalidOutput(recipe) == recipe.output <= 0

\* Lines 334 and 340: the item itself, at the quantity asked.
LeafRequirement(it, qty) == (it :> qty)

\* Line 343: crafting_factor = quantity / recipe["output"].
CraftingFactor(qty, recipe) == QDivInt(qty, recipe.output)

\* Line 347: needed = ing_quantity * crafting_factor.
Needed(ing_quantity, crafting_factor) == QMulInt(ing_quantity, crafting_factor)

\* Mutant of MergeInto: requirements[sub_ing] = sub_qty.
MergeInto_Overwrite(requirements, sub_requirements) ==
    [k \in DOMAIN requirements \cup DOMAIN sub_requirements |->
        IF k \notin DOMAIN sub_requirements THEN requirements[k]
        ELSE sub_requirements[k]]

\* Lines 351-352: requirements[sub_ing] = requirements.get(sub_ing, 0) + sub_qty.
MergeInto(requirements, sub_requirements) ==
    [k \in DOMAIN requirements \cup DOMAIN sub_requirements |->
        IF k \notin DOMAIN sub_requirements THEN requirements[k]
        ELSE IF k \notin DOMAIN requirements THEN sub_requirements[k]
        ELSE QAdd(requirements[k], sub_requirements[k])]

\* The frame on top of the stack.
Top == stack[Len(stack)]

SimpleInit ==
    /\ pc = "simple_call"
    /\ recipes \in Stores
    /\ item = "chest"
    /\ quantity \in Quantities
    /\ call = [item |-> item, quantity |-> quantity]
    /\ stack = <<>>
    /\ ret = EmptyDict
    /\ simple_result = EmptyDict
    /\ LayeredIdle
    /\ ParseIdle
    /\ FormatIdle
    /\ AdvancedIdle
    /\ RatioIdle
    /\ ConfigIdle
    /\ AddIdle

\* Lines 333-334: a call on a base case returns {item: quantity}.
SimpleBaseCase ==
    /\ pc = "simple_call"
    /\ Len(stack) < MaxDepth
    /\ IsBaseCase(call.item)
    /\ ret' = LeafRequirement(call.item, call.quantity)
    /\ pc' = "simple_return"
    /\ UNCHANGED <<recipes, item, quantity, stack, call, simple_result, nonsimple>>

\* Mutant of SimpleInvalidOutput: returns no requirement at all.
SimpleInvalidOutput_Empty ==
    /\ pc = "simple_call"
    /\ Len(stack) < MaxDepth
    /\ ~IsBaseCase(call.item)
    /\ InvalidOutput(recipes[call.item])
    /\ ret' = EmptyDict
    /\ pc' = "simple_return"
    /\ UNCHANGED <<recipes, item, quantity, stack, call, simple_result, nonsimple>>

\* Lines 336-340: a call on a recipe with output <= 0 warns and returns
\* {item: quantity}.
SimpleInvalidOutput ==
    /\ pc = "simple_call"
    /\ Len(stack) < MaxDepth
    /\ ~IsBaseCase(call.item)
    /\ InvalidOutput(recipes[call.item])
    /\ ret' = LeafRequirement(call.item, call.quantity)
    /\ pc' = "simple_return"
    /\ UNCHANGED <<recipes, item, quantity, stack, call, simple_result, nonsimple>>

\* Lines 343-346: a call on a usable recipe computes its factor and enters
\* the loop over its ingredients.
SimpleExpand ==
    /\ pc = "simple_call"
    /\ Len(stack) < MaxDepth
    /\ ~IsBaseCase(call.item)
    /\ ~InvalidOutput(recipes[call.item])
    /\ stack' = Append(stack,
          [item |-> call.item,
           quantity |-> call.quantity,
           crafting_factor |-> CraftingFactor(call.quantity, recipes[call.item]),
           todo |-> DOMAIN recipes[call.item].inputs,
           requirements |-> EmptyDict])
    /\ pc' = "simple_loop"
    /\ UNCHANGED <<recipes, item, quantity, call, ret, simple_result, nonsimple>>

\* The call would exceed the interpreter's recursion limit: RecursionError.
SimpleRecursionError ==
    /\ pc = "simple_call"
    /\ Len(stack) >= MaxDepth
    /\ pc' = "simple_raised"
    /\ UNCHANGED <<svars, nonsimple>>

\* Lines 346-349: the loop takes the next ingredient and calls itself on it.
SimpleNextIngredient ==
    /\ pc = "simple_loop"
    /\ Top.todo # {}
    /\ LET ingredient == CHOOSE x \in Top.todo : TRUE
           ing_quantity == recipes[Top.item].inputs[ingredient]
       IN /\ call' = [item |-> ingredient,
                      quantity |-> Needed(ing_quantity, Top.crafting_factor)]
          /\ stack' = [stack EXCEPT ![Len(stack)].todo = @ \ {ingredient}]
    /\ pc' = "simple_call"
    /\ UNCHANGED <<recipes, item, quantity, ret, simple_result, nonsimple>>

\* Lines 351-352: back in the loop, the returned dict is merged.
SimpleMerge ==
    /\ pc = "simple_return"
    /\ stack # <<>>
    /\ stack' = [stack EXCEPT
                    ![Len(stack)].requirements = MergeInto(@, ret)]
    /\ pc' = "simple_loop"
    /\ UNCHANGED <<recipes, item, quantity, call, ret, simple_result, nonsimple>>

\* Line 354: the loop is over, the call returns its requirements.
SimpleFrameReturn ==
    /\ pc = "simple_loop"
    /\ Top.todo = {}
    /\ ret' = Top.requirements
    /\ stack' = SubSeq(stack, 1, Len(stack) - 1)
    /\ pc' = "simple_return"
    /\ UNCHANGED <<recipes, item, quantity, call, simple_result, nonsimple>>

\* The outermost call has returned.
SimpleFinish ==
    /\ pc = "simple_return"
    /\ stack = <<>>
    /\ simple_result' = ret
    /\ pc' = "simple_done"
    /\ UNCHANGED <<recipes, item, quantity, stack, call, ret, nonsimple>>

SimpleNext ==
    \/ SimpleBaseCase
    \/ SimpleInvalidOutput
    \/ SimpleExpand
    \/ SimpleRecursionError
    \/ SimpleNextIngredient
    \/ SimpleMerge
    \/ SimpleFrameReturn
    \/ SimpleFinish

SpecSimple == SimpleInit /\ [][SimpleNext]_vars

\* The program takes its next step as long as it has one.
SpecSimpleFair == SpecSimple /\ WF_vars(SimpleNext)

(***************************************************************************)
(* Both resolvers: a session calls one or the other on a recipe.           *)
(***************************************************************************)

ResolversInit ==
    \/ LayeredInit
    \/ SimpleInit

ResolversNext ==
    \/ LayeredNext
    \/ SimpleNext

SpecResolvers == ResolversInit /\ [][ResolversNext]_vars

\* C15: no step of either resolver changes the stage list (names, inputs,
\* outputs, order) or the recipe store, whether the step computes a stage,
\* skips a stage with non-positive output, expands a recipe or records an
\* item with an invalid output.
C15_ResolversReadOnly ==
    [][layers' = layers /\ recipes' = recipes]_vars

\* C15 witness: the layered resolver has returned, after computing one stage
\* whose requirements differ from its per-craft inputs and reporting another
\* stage's non-positive output.
C15_Witness ==
    /\ pc = "layered_done"
    /\ \E k \in 1..Len(layers) : layered_result[k].error # NoError
    /\ \E k \in 1..Len(layers) :
          /\ layered_result[k].error = NoError
          /\ layered_result[k].crafts > 1
          /\ layered_result[k].requirements # layers[k].inputs

(***************************************************************************)
(* Properties of compute_requirements.                                     *)
(***************************************************************************)

\* The item has a simple recipe with positive output: a call on it expands.
Expandable(x) ==
    IF x \notin DOMAIN recipes THEN FALSE
    ELSE IF "layers" \in DOMAIN recipes[x] THEN FALSE
    ELSE recipes[x].output > 0

\* The item has a simple recipe with output <= 0.
HasInvalidOutput(x) ==
    IF x \notin DOMAIN recipes THEN FALSE
    ELSE IF "layers" \in DOMAIN recipes[x] THEN FALSE
    ELSE recipes[x].output <= 0

\* The ingredients a call on x calls itself on.
Ingredients(x) == IF Expandable(x) THEN DOMAIN recipes[x].inputs ELSE {}

RECURSIVE ReachableIn(_, _)
\* The items called within n levels below the calls on the items of S.
ReachableIn(S, n) ==
    IF n = 0 THEN {}
    ELSE LET next == UNION { Ingredients(x) : x \in S }
         IN next \cup ReachableIn(next, n - 1)

\* The items that a call on x calls, at any depth.
Below(x) == ReachableIn({x}, Cardinality(Items))

\* The item transitively requires itself through simple recipes with positive
\* output, or requires an item that does.
CycleReachable == \E x \in {item} \cup Below(item) : x \in Below(x)

RECURSIVE ExpandDepth(_, _)
\* The longest chain of expanding calls that starts at x (n bounds the chain).
ExpandDepth(x, n) ==
    IF n = 0 \/ ~Expandable(x) THEN 0
    ELSE LET below == { ExpandDepth(y, n - 1) : y \in Ingredients(x) }
         IN 1 + (IF below = {} THEN 0
                 ELSE CHOOSE d \in below : \A e \in below : e <= d)

RECURSIVE RefResolve(_, _, _)
RECURSIVE RefResolveAll(_, _, _, _)
\* The reference recursion: a leaf is {x: qty}; a recipe is the sum of the
\* resolutions of its ingredients at per_craft_qty * qty / output.
RefResolve(x, qty, n) ==
    IF n = 0 \/ ~Expandable(x) THEN (x :> qty)
    ELSE RefResolveAll(DOMAIN recipes[x].inputs, x, qty, n)

\* The sum of the resolutions of the ingredients S of x.
RefResolveAll(S, x, qty, n) ==
    IF S = {} THEN EmptyDict
    ELSE LET ing == CHOOSE y \in S : TRUE
             sub == RefResolve(ing,
                               Q(recipes[x].inputs[ing] * qty[1],
                                 qty[2] * recipes[x].output),
                               n - 1)
             rest == RefResolveAll(S \ {ing}, x, qty, n)
         IN [k \in DOMAIN sub \cup DOMAIN rest |->
                IF k \notin DOMAIN rest THEN sub[k]
                ELSE IF k \notin DOMAIN sub THEN rest[k]
                ELSE Q(sub[k][1] * rest[k][2] + rest[k][1] * sub[k][2],
                       sub[k][2] * rest[k][2])]

\* C3: the dict the resolver returns is the one of the reference recursion
\* (leaf: {item: quantity}; recipe: the ingredients resolved at per_craft_qty
\* * quantity / output and summed per ingredient, nothing rounded); every key
\* of it is a leaf; and two chests of the chest store need {log: 4}.
C3_ResolveIsReference ==
    pc = "simple_done" =>
        /\ simple_result = RefResolve(item, quantity, Cardinality(Items) + 1)
        /\ \A k \in DOMAIN simple_result : ~Expandable(k)
        /\ (recipes = ChestStore /\ item = "chest" /\ quantity = <<2, 1>>)
              => simple_result = ("log" :> <<4, 1>>)

\* C3 witness: the resolution is over for a chest made of planks and logs,
\* with planks made of logs: the logs of both branches were summed.
C3_Witness ==
    /\ pc = "simple_done"
    /\ Expandable("chest") /\ Expandable("plank") /\ "log" \notin DOMAIN recipes
    /\ DOMAIN recipes["chest"].inputs = {"plank", "log"}
    /\ DOMAIN recipes["plank"].inputs = {"log"}
    /\ recipes["plank"].output = 4
    /\ DOMAIN simple_result = {"log"}

\* C4: when no cycle of simple recipes with positive output is reachable from
\* the item, the depth of the recursion never exceeds the depth of the recipe
\* graph, no recursion error is raised and the call returns; when such a
\* cycle is reachable the call never returns a result: the recursion deepens
\* until the interpreter's limit.
C4_TerminatesIffAcyclic ==
    /\ [](~CycleReachable =>
            /\ Len(stack) <= ExpandDepth(item, Cardinality(Items))
            /\ pc # "simple_raised")
    /\ [](CycleReachable => pc # "simple_done")
    /\ (~CycleReachable) ~> (pc = "simple_done")
    /\ CycleReachable ~> (pc = "simple_raised" /\ Len(stack) = MaxDepth)

\* C4 witness: the recursion hit the limit on an item that is already being
\* expanded further down the stack.
C4_Witness ==
    /\ pc = "simple_raised"
    /\ Len(stack) = MaxDepth
    /\ CycleReachable
    /\ \E a, b \in 1..Len(stack) : a < b /\ stack[a].item = stack[b].item

\* C10: no recipe with output <= 0 is ever expanded (every frame divides by a
\* positive output); a call on such a recipe returns {item: quantity asked}
\* at once, with the stack as it was; and the resolution goes on: when it is
\* over, every item with output <= 0 that was called is a key of the result.
C10_NonPositiveOutputIsLeaf ==
    /\ [](\A k \in 1..Len(stack) : recipes[stack[k].item].output > 0)
    /\ [][(pc = "simple_call" /\ Len(stack) < MaxDepth
            /\ HasInvalidOutput(call.item))
          => /\ pc' = "simple_return"
             /\ ret' = (call.item :> call.quantity)
             /\ stack' = stack]_vars
    /\ [](pc = "simple_done" =>
            \A x \in {item} \cup Below(item) :
                HasInvalidOutput(x) =>
                    /\ x \in DOMAIN simple_result
                    /\ simple_result[x][1] > 0)

\* C10 witness: the resolution is over, and an ingredient below the item has
\* a recipe with output <= 0 and is in the result beside another material.
C10_Witness ==
    /\ pc = "simple_done"
    /\ \E x \in Below(item) :
          /\ HasInvalidOutput(x)
          /\ x \in DOMAIN simple_result
          /\ DOMAIN simple_result # {x}

(***************************************************************************)
(* parse_single_amount(s, config) and parse_combined_amount(s, config).    *)
(* A string is a sequence of one-character strings.  A float is a fraction *)
(* <<n, d>> with d > 0, or NaN, or an infinity.                            *)
(***************************************************************************)

BASE_STACK_SIZE == 64
SHULKER_STACKS == 27
DOUBLE_CHEST_STACKS == 54

\* Bound: the most tokens an amount string of the model is made of.
MaxTokens == 3

\* The pieces the amount strings of the model are made of.
Tokens ==
    { <<"1">>, <<"5">>, <<"-">>, <<".">>, <<",">>, <<" ">>,
      <<"s">>, <<"b">>, <<"d", "c">>, <<"S">>, <<"n", "a", "n">> }

RECURSIVE TextsOf(_)
\* The strings made of at most n tokens.
TextsOf(n) ==
    IF n = 0 THEN { <<>> }
    ELSE LET shorter == TextsOf(n - 1)
         IN shorter \cup { u \o tok : u \in shorter, tok \in Tokens }

\* "30s, 15"
ThirtyStacksFifteen == <<"3", "0", "s", ",", " ", "1", "5">>

Texts == TextsOf(MaxTokens) \cup {ThirtyStacksFifteen}

\* Lines 22-30: DEFAULT_CONFIG["suffixes"].
DefaultSuffixes ==
    [stack |-> <<"s">>, shulker |-> <<"s", "b">>, double_chest |-> <<"d", "c">>]

\* Configurations whose suffixes are suffixes of one another.
Configs ==
    { [suffixes |-> DefaultSuffixes],
      [suffixes |-> [stack |-> <<"b">>, shulker |-> <<"s", "b">>,
                     double_chest |-> <<"d", "c">>]],
      [suffixes |-> [stack |-> <<"b">>, shulker |-> <<"d", "c">>,
                     double_chest |-> <<"s", "b">>]],
      [suffixes |-> [stack |-> <<"s">>, shulker |-> <<"s", "b">>,
                     double_chest |-> <<"b">>]] }

\* Lines 106-114: the suffixes of the configuration, a missing one replaced
\* by its default.
get_suffixes(cfg) ==
    LET cfg_suffixes == IF "suffixes" \in DOMAIN cfg THEN cfg.suffixes ELSE EmptyDict
    IN [key \in {"stack", "shulker", "double_chest"} |->
            IF key \in DOMAIN cfg_suffixes THEN cfg_suffixes[key]
            ELSE DefaultSuffixes[key]]

Whitespace == {" "}

RECURSIVE LStrip(_)
LStrip(str) ==
    IF str # <<>> /\ Head(str) \in Whitespace THEN LStrip(Tail(str)) ELSE str

RECURSIVE RStrip(_)
RStrip(str) ==
    IF str # <<>> /\ str[Len(str)] \in Whitespace
    THEN RStrip(SubSeq(str, 1, Len(str) - 1))
    ELSE str

\* str.strip()
Strip(str) == RStrip(LStrip(str))

\* The lower-case letter of the upper-case letters of the model.
LowerOf == ("S" :> "s") @@ ("B" :> "b") @@ ("D" :> "d") @@ ("C" :> "c")

\* str.lower()
Lower(str) ==
    [k \in 1..Len(str) |-> IF str[k] \in DOMAIN LowerOf THEN LowerOf[str[k]] ELSE str[k]]

\* str.endswith(suf)
EndsWith(str, suf) ==
    /\ Len(suf) <= Len(str)
    /\ SubSeq(str, Len(str) - Len(suf) + 1, Len(str)) = suf

\* str[:-len(suf)]
DropSuffix(str, suf) ==
    IF Len(suf) = 0 THEN <<>> ELSE SubSeq(str, 1, Len(str) - Len(suf))

DigitValue ==
    ("0" :> 0) @@ ("1" :> 1) @@ ("2" :> 2) @@ ("3" :> 3) @@ ("4" :> 4)
    @@ ("5" :> 5) @@ ("6" :> 6) @@ ("7" :> 7) @@ ("8" :> 8) @@ ("9" :> 9)

IsDigits(str) == \A k \in 1..Len(str) : str[k] \in DOMAIN DigitValue

RECURSIVE DigitsValue(_)
\* The number a string of digits writes (0 for the empty string).
DigitsValue(str) ==
    IF str = <<>> THEN 0
    ELSE 10 * DigitsValue(SubSeq(str, 1, Len(str) - 1)) + DigitValue[str[Len(str)]]

RECURSIVE Pow10(_)
Pow10(n) == IF n = 0 THEN 1 ELSE 10 * Pow10(n - 1)

\* float("nan"), float("inf") and float("-inf").
NaN == <<0, 0>>
Infinity == <<1, 0>>
MinusInfinity == <<-1, 0>>

\* Where the decimal point of the string is (0: none).
PointAt(str) ==
    IF \E k \in 1..Len(str) : str[k] = "."
    THEN CHOOSE k \in 1..Len(str) : str[k] = "." /\ \A j \in 1..(k - 1) : str[j] # "."
    ELSE 0

\* An unsigned decimal numeral: digits, at most one point, at least one digit.
IsDecimal(str) ==
    LET p == PointAt(str)
        whole == IF p = 0 THEN str ELSE SubSeq(str, 1, p - 1)
        frac == IF p = 0 THEN <<>> ELSE SubSeq(str, p + 1, Len(str))
    IN IsDigits(whole) /\ IsDigits(frac) /\ Len(whole) + Len(frac) > 0

\* The value of an unsigned decimal numeral.
DecimalValue(str) ==
    LET p == PointAt(str)
        whole == IF p = 0 THEN str ELSE SubSeq(str, 1, p - 1)
        frac == IF p = 0 THEN <<>> ELSE SubSeq(str, p + 1, Len(str))
    IN Q(DigitsValue(whole \o frac), Pow10(Len(frac)))

\* Line 138: float(value_str), on the strings of the model (no exponent and
\* no underscore is among their characters).  valid is FALSE where float()
\* raises ValueError.
ParseFloat(str) ==
    LET stripped == Strip(str)
        signed == stripped # <<>> /\ Head(stripped) \in {"+", "-"}
        negative == stripped # <<>> /\ Head(stripped) = "-"
        body == IF signed THEN Tail(stripped) ELSE stripped
    IN IF body = <<"n", "a", "n">>
       THEN [valid |-> TRUE, value |-> NaN]
       ELSE IF body \in { <<"i", "n", "f">>,
                          <<"i", "n", "f", "i", "n", "i", "t", "y">> }
       THEN [valid |-> TRUE,
             value |-> IF negative THEN MinusInfinity ELSE Infinity]
       ELSE IF IsDecimal(body)
       THEN [valid |-> TRUE,
             value |-> LET v == DecimalValue(body)
                       IN IF negative THEN <<-v[1], v[2]>> ELSE v]
       ELSE [valid |-> FALSE, value |-> <<0, 1>>]

\* num * multiplier
FloatTimes(num, multiplier) ==
    IF num[2] = 0 THEN num ELSE Q(num[1] * multiplier, num[2])

\* total + amount, for amounts that are not negative.
FloatPlus(a, b) ==
    IF a = NaN \/ b = NaN THEN NaN
    ELSE IF a[2] = 0 THEN a
    ELSE IF b[2] = 0 THEN b
    ELSE QAdd(a, b)

\* The ValueError of line 144.
InvalidAmount == [ok |-> FALSE, value |-> <<0, 1>>]

\* A returned float.
Returned(v) == [ok |-> TRUE, value |-> v]

\* Mutant of SplitSuffix: the stack suffix is tested first.
SplitSuffix_StackFirst(str, suffixes) ==
    IF EndsWith(str, suffixes.stack)
    THEN [multiplier |-> BASE_STACK_SIZE,
          value_str |-> DropSuffix(str, suffixes.stack)]
    ELSE IF EndsWith(str, suffixes.shulker)
    THEN [multiplier |-> BASE_STACK_SIZE * SHULKER_STACKS,
          value_str |-> DropSuffix(str, suffixes.shulker)]
    ELSE IF EndsWith(str, suffixes.double_chest)
    THEN [multiplier |-> BASE_STACK_SIZE * DOUBLE_CHEST_STACKS,
          value_str |-> DropSuffix(str, suffixes.double_chest)]
    ELSE [multiplier |-> 1, value_str |-> str]

\* Lines 124-135: the multiplier and the value string of the stripped,
\* lower-cased text: the suffixes are tested shulker, double chest, stack.
SplitSuffix(str, suffixes) ==
    IF EndsWith(str, suffixes.shulker)
    THEN [multiplier |-> BASE_STACK_SIZE * SHULKER_STACKS,
          value_str |-> DropSuffix(str, suffixes.shulker)]
    ELSE IF EndsWith(str, suffixes.double_chest)
    THEN [multiplier |-> BASE_STACK_SIZE * DOUBLE_CHEST_STACKS,
          value_str |-> DropSuffix(str, suffixes.double_chest)]
    ELSE IF EndsWith(str, suffixes.stack)
    THEN [multiplier |-> BASE_STACK_SIZE,
          value_str |-> DropSuffix(str, suffixes.stack)]
    ELSE [multiplier |-> 1, value_str |-> str]

\* Lines 137-144: the number of the value string, a ValueError if float()
\* rejects it or if it is negative.
NumberTimes(value_str, multiplier) ==
    LET num == ParseFloat(value_str)
    IN IF ~num.valid THEN InvalidAmount
       ELSE IF num.value[1] < 0 THEN InvalidAmount
       ELSE Returned(FloatTimes(num.value, multiplier))

\* Lines 116-144.
parse_single_amount(str, cfg) ==
    LET split == SplitSuffix(Lower(Strip(str)), get_suffixes(cfg))
    IN NumberTimes(split.value_str, split.multiplier)

RECURSIVE Split(_, _)
\* Line 149: str.split(sep).
Split(str, sep) ==
    IF \A k \in 1..Len(str) : str[k] # sep THEN <<str>>
    ELSE LET at == CHOOSE k \in 1..Len(str) :
                       str[k] = sep /\ \A j \in 1..(k - 1) : str[j] # sep
         IN <<SubSeq(str, 1, at - 1)>> \o Split(SubSeq(str, at + 1, Len(str)), sep)

\* Mutant of NotBlank: no part is skipped.
NotBlank_Always(part) == TRUE

\* Line 152: part.strip() is not empty.
NotBlank(part) == Strip(part) # <<>>

RECURSIVE SumParts(_, _, _)
\* Lines 151-153: the loop over the parts, from the total so far; the
\* ValueError of a part ends it.
SumParts(parts, total, cfg) ==
    IF parts = <<>> THEN Returned(total)
    ELSE IF ~NotBlank(Head(parts)) THEN SumParts(Tail(parts), total, cfg)
    ELSE LET amount == parse_single_amount(Head(parts), cfg)
         IN IF ~amount.ok THEN InvalidAmount
            ELSE SumParts(Tail(parts), FloatPlus(total, amount.value), cfg)

\* Lines 147-154.
parse_combined_amount(str, cfg) == SumParts(Split(str, ","), <<0, 1>>, cfg)

ParseInit ==
    /\ pc = "parse_start"
    /\ text \in Texts
    /\ config \in Configs
    /\ parse_fn = ""
    /\ parsed = <<>>
    /\ LayeredIdle
    /\ SimpleIdle
    /\ FormatIdle
    /\ AdvancedIdle
    /\ RatioIdle
    /\ ConfigIdle
    /\ AddIdle

\* A call of parse_single_amount(text, config).
ParseSingleAmount ==
    /\ pc = "parse_start"
    /\ parsed' = parse_single_amount(text, config)
    /\ parse_fn' = "single"
    /\ pc' = "parse_done"
    /\ UNCHANGED <<text, config, nonparse>>

\* A call of parse_combined_amount(text, config).
ParseCombinedAmount ==
    /\ pc = "parse_start"
    /\ parsed' = parse_combined_amount(text, config)
    /\ parse_fn' = "combined"
    /\ pc' = "parse_done"
    /\ UNCHANGED <<text, config, nonparse>>

ParseNext ==
    \/ ParseSingleAmount
    \/ ParseCombinedAmount

SpecParse == ParseInit /\ [][ParseNext]_vars

(***************************************************************************)
(* Properties of the amount parsers.                                       *)
(***************************************************************************)

\* The text without its last n characters.
WithoutLast(str, n) == SubSeq(str, 1, Len(str) - n)

\* The string writes a real number that is not negative: a decimal numeral,
\* with or without a sign, that float() reads as a finite value >= 0.
IsAmount(str) ==
    LET num == ParseFloat(str)
    IN num.valid /\ num.value[2] > 0 /\ num.value[1] >= 0

\* The maximal runs <<a, b>> of the text between commas (b = a - 1: empty).
Segments ==
    { seg \in (1..(Len(text) + 1)) \X (0..Len(text)) :
        /\ seg[2] >= seg[1] - 1
        /\ seg[1] = 1 \/ text[seg[1] - 1] = ","
        /\ seg[2] = Len(text) \/ text[seg[2] + 1] = ","
        /\ \A k \in seg[1]..seg[2] : text[k] # "," }

\* The segments with a character that is not white space.
NonEmptySegments ==
    { seg \in Segments : \E k \in seg[1]..seg[2] : text[k] \notin Whitespace }

SegmentText(seg) == SubSeq(text, seg[1], seg[2])

RECURSIVE SumOfSegments(_)
\* The sum of parse_single over a set of segments that all parse.
SumOfSegments(S) ==
    IF S = {} THEN <<0, 1>>
    ELSE LET seg == CHOOSE x \in S : TRUE
         IN FloatPlus(parse_single_amount(SegmentText(seg), config).value,
                      SumOfSegments(S \ {seg}))

\* C5: parse_single trims and lower-cases the text and tests the suffixes in
\* the order shulker, double chest, stack: the first one the text ends with
\* is stripped and the number left is multiplied by 1728, 3456 or 64; with no
\* suffix the factor is 1.  With the default suffixes a text that ends with
\* "sb" is a shulker quantity, never a stack quantity, and q followed by "s"
\* is q * 64.
C5_SuffixOrderAndFactors ==
    (pc = "parse_done" /\ parse_fn = "single") =>
        LET t == Lower(Strip(text))
            suf == config.suffixes
            first == IF EndsWith(t, suf.shulker) THEN <<1728, Len(suf.shulker)>>
                     ELSE IF EndsWith(t, suf.double_chest)
                     THEN <<3456, Len(suf.double_chest)>>
                     ELSE IF EndsWith(t, suf.stack) THEN <<64, Len(suf.stack)>>
                     ELSE <<1, 0>>
            number == WithoutLast(t, first[2])
        IN /\ IsAmount(number) =>
                 LET q == ParseFloat(number).value
                 IN parsed = [ok |-> TRUE, value |-> Q(q[1] * first[1], q[2])]
           /\ (suf = DefaultSuffixes /\ EndsWith(t, <<"s", "b">>)
                 /\ IsAmount(WithoutLast(t, 2))) =>
                 LET q == ParseFloat(WithoutLast(t, 2)).value
                 IN /\ parsed = [ok |-> TRUE, value |-> Q(q[1] * 1728, q[2])]
                    /\ (q[1] > 0 => parsed.value # Q(q[1] * 64, q[2]))
           /\ (suf = DefaultSuffixes /\ text # <<>> /\ text[Len(text)] = "s"
                 /\ IsDecimal(WithoutLast(text, 1))) =>
                 LET q == DecimalValue(WithoutLast(text, 1))
                 IN parsed = [ok |-> TRUE, value |-> Q(q[1] * 64, q[2])]

\* C5 witness: with the stack suffix "b" and the shulker suffix "sb", the
\* text "1sb" was parsed as one shulker box.
C5_Witness ==
    /\ pc = "parse_done" /\ parse_fn = "single"
    /\ config.suffixes.stack = <<"b">>
    /\ config.suffixes.shulker = <<"s", "b">>
    /\ text = <<"1", "s", "b">>
    /\ parsed = [ok |-> TRUE, value |-> <<1728, 1>>]

\* C6: parse_combined is the sum of parse_single over the segments between
\* the commas that are not empty or white space, whenever they all parse; it
\* is 0 when there is no such segment; "30s, 15" is 1935 with the defaults.
C6_CombinedIsSum ==
    (pc = "parse_done" /\ parse_fn = "combined") =>
        /\ ((\A seg \in NonEmptySegments :
                 parse_single_amount(SegmentText(seg), config).ok)
              => parsed = [ok |-> TRUE, value |-> SumOfSegments(NonEmptySegments)])
        /\ (NonEmptySegments = {} => parsed = [ok |-> TRUE, value |-> <<0, 1>>])
        /\ ((text = ThirtyStacksFifteen /\ config.suffixes = DefaultSuffixes)
              => parsed = [ok |-> TRUE, value |-> <<1935, 1>>])

\* C6 witness: a text of two segments that parse to amounts above 0 was
\* summed.
C6_Witness ==
    /\ pc = "parse_done" /\ parse_fn = "combined"
    /\ Cardinality(NonEmptySegments) = 2
    /\ parsed.ok
    /\ parsed.value[1] > 1
    /\ \A seg \in NonEmptySegments :
          parse_single_amount(SegmentText(seg), config).value[1] > 0

\* C7 as stated: parse_single fails whenever the text left after the suffix
\* is not a number that is not negative, and parse_combined fails whenever
\* one of its segments does.
C7_InvalidAmountsAreErrors ==
    /\ (pc = "parse_done" /\ parse_fn = "single") =>
          LET split == SplitSuffix(Lower(Strip(text)), config.suffixes)
          IN ~IsAmount(split.value_str) => parsed = InvalidAmount
    /\ (pc = "parse_done" /\ parse_fn = "combined") =>
          ((\E seg \in NonEmptySegments :
               LET split == SplitSuffix(Lower(Strip(SegmentText(seg))),
                                        config.suffixes)
               IN ~IsAmount(split.value_str))
             => parsed = InvalidAmount)

(***************************************************************************)
(* format_breakdown and the breakdown functions.  A formatted string is    *)
(* the list of its parts, which the source joins with ", "; a part is a    *)
(* count and the unit text that follows it.                                *)
(***************************************************************************)

\* The largest whole quantity formatted: above one double chest (3456).
MaxTotal == 3500

\* The quantities formatted: the halves from -2 to MaxTotal + 1/2.
Totals == { Q(n, 2) : n \in (-4)..(2 * MaxTotal + 1) }

\* The container preferences: the two the configuration menu writes and one
\* that only a hand-edited configuration file can hold.
Preferences == {"sb", "dc", "chest"}

\* math.floor and math.ceil of a rational.
Floor(q) == q[1] \div q[2]
Ceil(q) == -((-q[1]) \div q[2])

Part(count, unit) == [count |-> count, unit |-> unit]

\* Mutant of breakdown_to_stacks: rounds the quantity up.
breakdown_to_stacks_Ceil(total) ==
    LET whole == Ceil(total)
    IN [stacks |-> whole \div BASE_STACK_SIZE, items |-> whole % BASE_STACK_SIZE]

breakdown_to_stacks(total) ==
    LET whole == Floor(total)
    IN [stacks |-> whole \div BASE_STACK_SIZE, items |-> whole % BASE_STACK_SIZE]

breakdown_to_shulkers_AsDoubleChests(total) ==
    LET b == breakdown_to_stacks(total)
    IN [containers |-> b.stacks \div DOUBLE_CHEST_STACKS,
        rem_stacks |-> b.stacks % DOUBLE_CHEST_STACKS,
        items |-> b.items]

breakdown_to_shulkers(total) ==
    LET b == breakdown_to_stacks(total)
    IN [containers |-> b.stacks \div SHULKER_STACKS,
        rem_stacks |-> b.stacks % SHULKER_STACKS,
        items |-> b.items]

breakdown_to_double_chests(total) ==
    LET b == breakdown_to_stacks(total)
    IN [containers |-> b.stacks \div DOUBLE_CHEST_STACKS,
        rem_stacks |-> b.stacks % DOUBLE_CHEST_STACKS,
        items |-> b.items]

\* parts.append(...) under "if count:".
AppendIf(parts, count, unit) ==
    IF count # 0 THEN Append(parts, Part(count, unit)) ELSE parts

\* The string returned and the return statement that returned it.
format_breakdown(total, conv, preference) ==
    IF ~conv
    THEN [text |-> <<Part(Ceil(total), "item(s)")>>, exit |-> "raw"]
    ELSE LET int_total_items == Floor(total)
         IN IF int_total_items <= 0
            THEN [text |-> <<Part(0, "items")>>, exit |-> "zero"]
            ELSE LET b == IF preference = "dc"
                          THEN breakdown_to_double_chests(<<int_total_items, 1>>)
                          ELSE breakdown_to_shulkers(<<int_total_items, 1>>)
                     unit == IF preference = "dc" THEN "double chest(s)"
                             ELSE "shulker box(es)"
                     parts == AppendIf(AppendIf(AppendIf(<<>>,
                                  b.containers, unit),
                                  b.rem_stacks, "stack(s)"),
                                  b.items, "item(s)")
                 IN IF parts # <<>>
                    THEN [text |-> parts, exit |-> "parts"]
                    ELSE [text |-> <<Part(Ceil(total), "item(s)")>>,
                          exit |-> "fallback"]

FormatInit ==
    /\ pc = "format_start"
    /\ total_items \in Totals
    /\ auto_conv \in BOOLEAN
    /\ container_preference \in Preferences
    /\ formatted = <<>>
    /\ breakdowns = <<>>
    /\ LayeredIdle
    /\ SimpleIdle
    /\ ParseIdle
    /\ AdvancedIdle
    /\ RatioIdle
    /\ ConfigIdle
    /\ AddIdle

\* One call of format_breakdown.
FormatBreakdown ==
    /\ pc = "format_start"
    /\ formatted' = format_breakdown(total_items, auto_conv,
                                     container_preference)
    /\ pc' = "format_done"
    /\ UNCHANGED <<total_items, auto_conv, container_preference, breakdowns,
                   nonformat>>

FormatNext == FormatBreakdown

SpecFormat == FormatInit /\ [][FormatNext]_vars

\* Lines 231-253, convert_stacks_to_containers, after the amount was parsed
\* (the parser returns no negative amount).
ConvertInit ==
    /\ pc = "convert_start"
    /\ total_items \in { q \in Totals : q[1] >= 0 }
    /\ auto_conv \in BOOLEAN
    /\ container_preference = ""
    /\ formatted = <<>>
    /\ breakdowns = <<>>
    /\ LayeredIdle
    /\ SimpleIdle
    /\ ParseIdle
    /\ AdvancedIdle
    /\ RatioIdle
    /\ ConfigIdle
    /\ AddIdle

\* Lines 240-250: the stacks, and with auto conversion both container
\* breakdowns, of the amount.
ConvertStacksToContainers ==
    /\ pc = "convert_start"
    /\ breakdowns' =
          [stacks |-> breakdown_to_stacks(total_items),
           sb |-> IF auto_conv THEN breakdown_to_shulkers(total_items) ELSE None,
           dc |-> IF auto_conv THEN breakdown_to_double_chests(total_items)
                  ELSE None]
    /\ pc' = "convert_done"
    /\ UNCHANGED <<total_items, auto_conv, container_preference, formatted,
                   nonformat>>

ConvertNext == ConvertStacksToContainers

SpecConvert == ConvertInit /\ [][ConvertNext]_vars

(***************************************************************************)
(* Properties of the formatter.                                            *)
(***************************************************************************)

\* The parts of a list of counts and units whose count is not 0, in order.
NonZeroParts(list) == SelectSeq(list, LAMBDA part : part.count # 0)

C18_BreakdownIsLossless ==
    pc = "convert_done" =>
        LET n == total_items[1] \div total_items[2]
            Lossless(b, spc) ==
                /\ b.containers * (64 * spc) + b.rem_stacks * 64 + b.items = n
                /\ b.items \in 0..63
                /\ b.rem_stacks \in 0..(spc - 1)
                /\ b.containers >= 0
                /\ b.containers = n \div (64 * spc)
        IN /\ n >= 0
           /\ total_items[1] - n * total_items[2] \in 0..(total_items[2] - 1)
           /\ breakdowns.stacks.stacks * 64 + breakdowns.stacks.items = n
           /\ breakdowns.stacks.items \in 0..63
           /\ auto_conv =>
                 /\ Lossless(breakdowns.sb, 27)
                 /\ Lossless(breakdowns.dc, 54)
                 /\ breakdowns.sb.containers = n \div 1728
                 /\ breakdowns.dc.containers = n \div 3456

\* C18 witness: a quantity that is not whole was broken down into one
\* shulker box, some stacks and some items, and, by double chests, into no
\* chest and more than 27 stacks.
C18_Witness ==
    /\ pc = "convert_done"
    /\ auto_conv
    /\ total_items[2] = 2
    /\ breakdowns.sb.containers = 1
    /\ breakdowns.sb.rem_stacks > 0
    /\ breakdowns.sb.items > 0
    /\ breakdowns.dc.containers = 0
    /\ breakdowns.dc.rem_stacks > 27

(***************************************************************************)
(* crafting_helper: the single-ratio calculator.  The three amounts are    *)
(* whole numbers held in doubles; the ratio and the product are double     *)
(* operations, each rounded to the nearest double, ties to even.           *)
(***************************************************************************)

\* Bound: the largest per-craft amount entered.
MaxOperand == 13

\* Bound: the largest desired or available amount entered, besides the two
\* of the examples.
MaxAmount == 30

RatioAmounts == (0..MaxAmount) \cup {100, 800}

Choices == {"1", "2", "3"}

\* The significant bits of a double (sys.float_info.mant_dig).
DoubleMantissaBits == 53

RECURSIVE Log2Floor(_, _)
\* floor(log2(n / d)) for n, d > 0: the binary exponent of n / d.
Log2Floor(n, d) ==
    IF n >= 2 * d THEN Log2Floor(n, 2 * d) + 1
    ELSE IF n < d THEN Log2Floor(2 * n, d) - 1
    ELSE 0

RECURSIVE Pow2(_)
Pow2(n) == IF n = 0 THEN 1 ELSE 2 * Pow2(n - 1)

RECURSIVE Pow2Mod(_, _)
\* 2^s modulo m.
Pow2Mod(s, m) == IF s = 0 THEN 1 % m ELSE (2 * Pow2Mod(s - 1, m)) % m

\* The double a / b for whole a, b > 0.  With exp the binary exponent of
\* a / b and s = 52 - exp, the double is (a * 2^s + eps) / (b * 2^s), where
\* eps is what rounding a * 2^s / b to the nearest whole number (ties to
\* even) adds to the numerator: -rho or b - rho for rho = a * 2^s mod b.
FloatDivide(a, b) ==
    LET exp == Log2Floor(a, b)
        s == (DoubleMantissaBits - 1) - exp
        rho == (a * Pow2Mod(s, b)) % b
        quotient_is_odd == (((a * Pow2Mod(s, 2 * b)) % (2 * b)) - rho) \div b = 1
        up == IF 2 * rho = b THEN quotient_is_odd ELSE 2 * rho > b
    IN [exp |-> exp, eps |-> IF up THEN b - rho ELSE -rho]

\* The double (a / b) * d against the number a * d / b when that is a whole
\* number n: 1 if it is above n, -1 if it is below, 0 if it is n.  The
\* product of the double a / b and d is n + eta with
\* eta = eps * d / (b * 2^s), and it is rounded to the nearest double: away
\* from n exactly when |eta| is more than half the gap between n and the
\* next double on that side (2^(E - 52) above n, and below n the same, or
\* half of it when n is a power of two; E the binary exponent of n).
FloatProductSide(a, b, d) ==
    LET n == (a * d) \div b
        q == FloatDivide(a, b)
        E == Log2Floor(n, 1)
        k == 1 + q.exp - E
        num == Abs(q.eps) * d * (IF k >= 0 THEN Pow2(k) ELSE 1)
        den == b * (IF k >= 0 THEN 1 ELSE Pow2(-k))
    IN IF q.eps > 0 THEN (IF num > den THEN 1 ELSE 0)
       ELSE IF q.eps < 0
       THEN (IF num * (IF n = Pow2(E) THEN 2 ELSE 1) > den THEN -1 ELSE 0)
       ELSE 0

\* math.floor and math.ceil of the double (a / b) * d, for whole a, d >= 0
\* and b > 0.  When a * d / b is not whole the double lies strictly between
\* the same two whole numbers as a * d / b: the two roundings move it by far
\* less than 1 / b.
FloatRatioTimes(a, b, d) ==
    IF a * d = 0 THEN [floor |-> 0, ceil |-> 0]
    ELSE IF (a * d) % b # 0
    THEN [floor |-> (a * d) \div b, ceil |-> (a * d) \div b + 1]
    ELSE LET n == (a * d) \div b
             side == FloatProductSide(a, b, d)
         IN [floor |-> IF side < 0 THEN n - 1 ELSE n,
             ceil |-> IF side > 0 THEN n + 1 ELSE n]

\* Mutant of RatioOperandsInvalid: rejects only negative amounts.
RatioOperandsInvalid_Negative(inp, out) == ~(inp >= 0 /\ out >= 0)

\* Line 268: input_required <= 0 or output_result <= 0.
RatioOperandsInvalid(inp, out) == ~(inp > 0 /\ out > 0)

RatioInit ==
    /\ pc = "ratio_start"
    /\ input_required \in 0..MaxOperand
    /\ output_result \in 0..MaxOperand
    /\ choice \in Choices
    /\ ratio_amount \in RatioAmounts
    /\ ratio_result = None
    /\ LayeredIdle
    /\ SimpleIdle
    /\ ParseIdle
    /\ FormatIdle
    /\ AdvancedIdle
    /\ ConfigIdle
    /\ AddIdle

\* Lines 268-270: the error message and the return, before any calculation.
RatioInvalid ==
    /\ pc = "ratio_start"
    /\ RatioOperandsInvalid(input_required, output_result)
    /\ pc' = "ratio_invalid"
    /\ UNCHANGED <<rvars, nonratio>>

\* Lines 281-302: choice 1, the input required for a desired output.  A
\* division by zero raises ZeroDivisionError (lines 327-328).
RatioRequiredInput ==
    /\ pc = "ratio_start"
    /\ ~RatioOperandsInvalid(input_required, output_result)
    /\ choice = "1"
    /\ IF ratio_amount <= 0
       THEN pc' = "ratio_rejected" /\ UNCHANGED ratio_result
       ELSE IF output_result = 0
       THEN pc' = "ratio_zero_division" /\ UNCHANGED ratio_result
       ELSE /\ ratio_result' =
                  FloatRatioTimes(input_required, output_result,
                                  ratio_amount).ceil
            /\ pc' = "ratio_done"
    /\ UNCHANGED <<input_required, output_result, choice, ratio_amount, nonratio>>

\* Lines 305-320: choice 2, the output achievable from an available input
\* (never negative: the parser has rejected a negative amount).
RatioAchievableOutput ==
    /\ pc = "ratio_start"
    /\ ~RatioOperandsInvalid(input_required, output_result)
    /\ choice = "2"
    /\ IF input_required = 0
       THEN pc' = "ratio_zero_division" /\ UNCHANGED ratio_result
       ELSE /\ ratio_result' =
                  FloatRatioTimes(output_result, input_required,
                                  ratio_amount).floor
            /\ pc' = "ratio_done"
    /\ UNCHANGED <<input_required, output_result, choice, ratio_amount, nonratio>>

\* Lines 322-323: any other choice.
RatioInvalidChoice ==
    /\ pc = "ratio_start"
    /\ ~RatioOperandsInvalid(input_required, output_result)
    /\ choice \notin {"1", "2"}
    /\ pc' = "ratio_invalid_choice"
    /\ UNCHANGED <<rvars, nonratio>>

RatioNext ==
    \/ RatioInvalid
    \/ RatioRequiredInput
    \/ RatioAchievableOutput
    \/ RatioInvalidChoice

SpecRatio == RatioInit /\ [][RatioNext]_vars

(***************************************************************************)
(* Properties of the ratio calculator.                                     *)
(***************************************************************************)

\* C12 as stated: the required input is ceil(input * desired / output), the
\* least whole number r of input items with r * output >= input * desired;
\* 8 in for 1 out and 100 desired is 800.
C12_RequiredInputIsCeiling ==
    (pc = "ratio_done" /\ choice = "1") =>
        /\ ratio_result * output_result >= input_required * ratio_amount
        /\ (ratio_result - 1) * output_result < input_required * ratio_amount
        /\ (input_required = 8 /\ output_result = 1 /\ ratio_amount = 100)
              => ratio_result = 800

\* C13 as stated: the achievable output is floor(output * available / input),
\* the most whole output items p with p * input <= output * available; 1 in
\* for 8 out and 800 available is 100.
C13_AchievableOutputIsFloor ==
    (pc = "ratio_done" /\ choice = "2") =>
        /\ ratio_result * input_required <= output_result * ratio_amount
        /\ (ratio_result + 1) * input_required > output_result * ratio_amount
        /\ (input_required = 1 /\ output_result = 8 /\ ratio_amount = 800)
              => ratio_result = 100

\* C14: when an operand of the ratio is not positive the call ends with the
\* error and no quantity is computed, whatever the choice; and no division
\* by zero is reached in any call.
C14_InvalidRatioRejected ==
    /\ pc # "ratio_zero_division"
    /\ (pc # "ratio_start" /\ (input_required <= 0 \/ output_result <= 0)) =>
          /\ pc = "ratio_invalid"
          /\ ratio_result = None
    /\ pc = "ratio_invalid" => (input_required <= 0 \/ output_result <= 0)

\* C14 witness: a call with a positive input amount and the output amount 0
\* ended with the error, for the choice that divides by the output amount.
C14_Witness ==
    /\ pc = "ratio_invalid"
    /\ input_required > 0
    /\ output_result = 0
    /\ choice = "1"
    /\ ratio_amount > 0
    /\ ratio_result = None

(***************************************************************************)
(* load_config and config_menu: the suffixes of a session.  A dict is an   *)
(* object: config["suffixes"] and DEFAULT_CONFIG["suffixes"] may be the    *)
(* same one, and a write through either name is then seen through both.    *)
(***************************************************************************)

\* The suffixes a user enters or a configuration file holds.
SuffixValues == { <<"s">>, <<"s", "b">>, <<"d", "c">>, <<"x">> }

\* What is entered at a prompt of "Change Suffixes": a suffix, or nothing.
SuffixEntries == SuffixValues \cup {<<>>}

SuffixKeys == {"stack", "shulker", "double_chest"}

\* Lines 106-114 in a session: the suffixes of config, a missing key read
\* from DEFAULT_CONFIG["suffixes"] as it is now.
session_get_suffixes(cfg_suffixes, defaults) ==
    [key \in SuffixKeys |->
        IF key \in DOMAIN cfg_suffixes THEN cfg_suffixes[key] ELSE defaults[key]]

\* Lines 36-53, load_config.  Without a readable file the session's config
\* is DEFAULT_CONFIG.copy() (line 53), a shallow copy, and a file without
\* "suffixes" is given DEFAULT_CONFIG's dict itself (line 45): both share the
\* suffixes dict.  A file with "suffixes" keeps its own dict, its missing
\* keys filled with the default strings (lines 47-49).
ConfigInit ==
    /\ pc = "config_menu"
    /\ default_suffixes = DefaultSuffixes
    /\ suffixes_shared \in BOOLEAN
    /\ IF suffixes_shared
       THEN config_suffixes = DefaultSuffixes
       ELSE \E file_suffixes \in
                UNION { [keys -> SuffixValues] : keys \in SUBSET SuffixKeys } :
              config_suffixes = session_get_suffixes(file_suffixes, DefaultSuffixes)
    /\ config_choice = ""
    /\ LayeredIdle
    /\ SimpleIdle
    /\ ParseIdle
    /\ FormatIdle
    /\ AdvancedIdle
    /\ RatioIdle
    /\ AddIdle

\* Lines 732-734: the entries that are not blank are written into the dict.
WriteSuffixes(dict, new_stack, new_shulker, new_dc) ==
    [key \in DOMAIN dict |->
        IF key = "stack" /\ new_stack # <<>> THEN new_stack
        ELSE IF key = "shulker" /\ new_shulker # <<>> THEN new_shulker
        ELSE IF key = "double_chest" /\ new_dc # <<>> THEN new_dc
        ELSE dict[key]]

\* Lines 722-743: option 2, "Change Suffixes".
ConfigChangeSuffixes ==
    /\ pc = "config_menu"
    /\ \E new_stack \in SuffixEntries, new_shulker \in SuffixEntries,
          new_dc \in SuffixEntries :
          LET written == WriteSuffixes(config_suffixes, new_stack,
                                       new_shulker, new_dc)
          IN /\ config_suffixes' = written
             /\ default_suffixes' =
                   IF suffixes_shared THEN written ELSE default_suffixes
    /\ config_choice' = "2"
    /\ UNCHANGED <<pc, suffixes_shared, nonconfig>>

\* Lines 752-755: option 4, "Reset Suffixes to Default":
\* config["suffixes"] = DEFAULT_CONFIG["suffixes"].copy().
ConfigResetSuffixes ==
    /\ pc = "config_menu"
    /\ config_suffixes' = default_suffixes
    /\ suffixes_shared' = FALSE
    /\ config_choice' = "4"
    /\ UNCHANGED <<pc, default_suffixes, nonconfig>>

\* Lines 756-757: option 5, back to the main menu.
ConfigBack ==
    /\ pc = "config_menu"
    /\ pc' = "main_menu"
    /\ config_choice' = "5"
    /\ UNCHANGED <<config_suffixes, default_suffixes, suffixes_shared, nonconfig>>

\* Line 809: option 7 of the main menu.
ConfigEnter ==
    /\ pc = "main_menu"
    /\ pc' = "config_menu"
    /\ UNCHANGED <<cvars, nonconfig>>

ConfigNext ==
    \/ ConfigChangeSuffixes
    \/ ConfigResetSuffixes
    \/ ConfigBack
    \/ ConfigEnter

SpecConfig == ConfigInit /\ [][ConfigNext]_vars

(***************************************************************************)
(* Properties of the configuration.                                        *)
(***************************************************************************)

\* C17 as stated: the default suffixes are constants, s, sb and dc, and they
\* are the active suffixes right after "Reset Suffixes to Default",
\* whatever was changed before and however the session's config was loaded.
C17_ResetRestoresDefaults ==
    /\ default_suffixes = DefaultSuffixes
    /\ config_choice = "4" =>
          session_get_suffixes(config_suffixes, default_suffixes)
              = DefaultSuffixes

(***************************************************************************)
(* add_recipe: one action per way a run of the dialogue ends.              *)
(***************************************************************************)

\* Bound: the runs of add_recipe in a session.
MaxAdds == 3

\* The names entered for recipes and for the products of layers.
AddNames == {"chest", "stick", "hopper"}

\* The simple recipes entered (lines 567-594).
SimpleEntries ==
    { [inputs |-> ("plank" :> 8), output |-> 1],
      [inputs |-> ("plank" :> 2), output |-> 4] }

\* The layers entered for a recipe of two layers (lines 601-643): the
\* product of the first layer, then the final product made from it.
LayerEntries ==
    { << [name |-> first, inputs |-> ("plank" :> 2), output |-> 4],
         [name |-> final, inputs |-> (first :> 3), output |-> 1] >> :
      first \in AddNames, final \in AddNames }

\* Line 637: an ingredient of a layer named like the layer's product.
HasSelfIngredient(entered) ==
    \E k \in 1..Len(entered) : entered[k].name \in DOMAIN entered[k].inputs

\* recipes[key] = data.
Put(dict, key, data) ==
    [nm \in DOMAIN dict \cup {key} |-> IF nm = key THEN data ELSE dict[nm]]

\* Lines 542-550: the run gets past the name and the overwrite question.
Proceeds(name, answer) ==
    /\ name # ""
    /\ IF name \in DOMAIN recipes THEN answer = "y" ELSE answer = ""

\* Lines 20, 67-89: without a recipes file the session starts with no recipe.
AddInit ==
    /\ pc = "main_menu_recipes"
    /\ LayeredIdle
    /\ SimpleIdle
    /\ ParseIdle
    /\ FormatIdle
    /\ AdvancedIdle
    /\ RatioIdle
    /\ ConfigIdle
    /\ AddIdle

\* What every run does to the variables that describe it.
AddRun(name, answer, outcome, key) ==
    /\ pc = "main_menu_recipes"
    /\ add_runs < MaxAdds
    /\ add_runs' = add_runs + 1
    /\ recipes_before' = recipes
    /\ output_item' = name
    /\ overwrite' = answer
    /\ add_outcome' = outcome
    /\ saved_as' = key
    /\ UNCHANGED <<pc, nonadd>>

\* Lines 543-545: no name entered.
AddRecipeEmptyName ==
    /\ AddRun("", "", "empty_name", "")
    /\ UNCHANGED recipes

\* Lines 546-550: the recipe exists and the answer is not "y".
AddRecipeCancelled ==
    \E name \in DOMAIN recipes, answer \in {"n", "no"} :
        /\ AddRun(name, answer, "cancelled", "")
        /\ UNCHANGED recipes

\* Lines 552-560: the number of layers is not a whole number above 0.
AddRecipeBadCount ==
    \E name \in AddNames, answer \in {"y", ""} :
        /\ Proceeds(name, answer)
        /\ AddRun(name, answer, "bad_count", "")
        /\ UNCHANGED recipes

\* Lines 569-593, 611-640 and 657-660: an entry is rejected, by a return or
\* by a ValueError, before anything is saved.
AddRecipeAborted ==
    \E name \in AddNames, answer \in {"y", ""} :
        /\ Proceeds(name, answer)
        /\ AddRun(name, answer, "aborted", "")
        /\ UNCHANGED recipes

\* Lines 564-594 and 653-654: a recipe of one layer is saved under the name
\* entered.
AddRecipeSimple ==
    \E name \in AddNames, answer \in {"y", ""}, entered \in SimpleEntries :
        /\ Proceeds(name, answer)
        /\ AddRun(name, answer, "saved", name)
        /\ recipes' = Put(recipes, name, entered)

\* Lines 596-654: a recipe of several layers is saved under the name of its
\* last layer's product (lines 646-648), whatever name was entered first.
AddRecipeLayered ==
    \E name \in AddNames, answer \in {"y", ""}, entered \in LayerEntries :
        /\ Proceeds(name, answer)
        /\ ~HasSelfIngredient(entered)
        /\ LET key == entered[Len(entered)].name
           IN /\ AddRun(name, answer, "saved", key)
              /\ recipes' = Put(recipes, key, [layers |-> entered])

AddNext ==
    \/ AddRecipeEmptyName
    \/ AddRecipeCancelled
    \/ AddRecipeBadCount
    \/ AddRecipeAborted
    \/ AddRecipeSimple
    \/ AddRecipeLayered

SpecAdd == AddInit /\ [][AddNext]_vars

(***************************************************************************)
(* Properties of add_recipe.                                               *)
(***************************************************************************)

\* C20 as stated: a run that writes a key that was in the store has asked
\* about that name and was answered "y"; a run that saves touches no other
\* recipe; and a run that ends in any other way leaves the store as it was.
C20_OverwriteOnlyAfterConfirmation ==
    /\ (add_outcome = "saved" /\ saved_as \in DOMAIN recipes_before) =>
          (output_item = saved_as /\ overwrite = "y")
    /\ add_outcome = "saved" =>
          \A nm \in DOMAIN recipes_before \ {saved_as} :
              nm \in DOMAIN recipes /\ recipes[nm] = recipes_before[nm]
    /\ add_outcome \notin {"saved", ""} => recipes = recipes_before

====
